---- MODULE Spec2Model ----
(***************************************************************************)
(* trivial-todo-app: the JSON store (storage.py) and the todo manager      *)
(* (todo.py), modelled as processes that step through load and the steps   *)
(* of the atomic save against one shared directory.                        *)
(*                                                                         *)
(* A text is a sequence of JSON lexemes: insignificant whitespace is left  *)
(* out and a partial write cuts a text between two lexemes.  A lexeme is a *)
(* sequence of one-character strings whose first element names its kind:   *)
(*   <<"[">> <<"]">> <<"{">> <<"}">> <<",">> <<":">>   punctuation         *)
(*   <<"str", c1, ..., cn>>    a string literal, c1..cn its escaped body   *)
(*   <<"num", d1, ..., dn>>    an integer literal, d1..dn sign and digits  *)
(*   <<"true">> <<"false">> <<"null">>                                     *)
(*   <<"NaN">> <<"Infinity">> <<"-Infinity">>   not JSON, known to Python  *)
(*   <<"bad">>                 text that is no JSON lexeme                 *)
(***************************************************************************)
EXTENDS Integers, Sequences, FiniteSets, TLC

\* ------------------------------------------------------------------ bounds
MaxOps == 3
MaxAnyOps == 2
MaxFaults == 1
MaxIdArg == 2

\* --------------------------------------------------------- text primitives
Quote == "\""
Backslash == "\\"
Tab == "\t"
Newline == "\n"

\* str.strip() removes leading and trailing whitespace characters.
IsSpace(c) == c \in {" ", Tab, Newline}

RECURSIVE LStrip(_)
LStrip(s) == IF s # <<>> /\ IsSpace(Head(s)) THEN LStrip(Tail(s)) ELSE s

RECURSIVE RStrip(_)
RStrip(s) ==
    IF s # <<>> /\ IsSpace(s[Len(s)]) THEN RStrip(SubSeq(s, 1, Len(s) - 1)) ELSE s

Strip(s) == RStrip(LStrip(s))

DigitChars == <<"0", "1", "2", "3", "4", "5", "6", "7", "8", "9">>

\* str(n) of a non-negative int: its decimal digits.
RECURSIVE NatToStr(_)
NatToStr(n) ==
    IF n < 10 THEN <<DigitChars[n + 1]>>
    ELSE NatToStr(n \div 10) \o <<DigitChars[(n % 10) + 1]>>

IntToStr(n) == IF n < 0 THEN <<"-">> \o NatToStr(0 - n) ELSE NatToStr(n)

IsDigit(c) == \E d \in 1..10 : DigitChars[d] = c

DigitVal(c) == (CHOOSE d \in 1..10 : DigitChars[d] = c) - 1

RECURSIVE StrToNat(_)
StrToNat(ds) ==
    IF Len(ds) = 1 THEN DigitVal(ds[1])
    ELSE 10 * StrToNat(SubSeq(ds, 1, Len(ds) - 1)) + DigitVal(ds[Len(ds)])

\* The JSON grammar of an integer: optional minus, digits, no leading zero.
IsNatLiteral(ds) ==
    /\ Len(ds) >= 1
    /\ \A i \in 1..Len(ds) : IsDigit(ds[i])
    /\ (Len(ds) > 1 => ds[1] # "0")

IsIntLiteral(ds) ==
    IF ds # <<>> /\ ds[1] = "-" THEN IsNatLiteral(Tail(ds)) ELSE IsNatLiteral(ds)

StrToInt(ds) == IF ds[1] = "-" THEN 0 - StrToNat(Tail(ds)) ELSE StrToNat(ds)

\* ------------------------------------------------------ json.dumps encoder
\* Variant: every character is written as it is.
EscapeCharRaw(c) == <<c>>

\* json.dumps escapes the quote, the backslash and control characters.
EscapeChar(c) ==
    IF c = Quote THEN <<Backslash, Quote>>
    ELSE IF c = Backslash THEN <<Backslash, Backslash>>
    ELSE IF c = Tab THEN <<Backslash, "t">>
    ELSE IF c = Newline THEN <<Backslash, "n">>
    ELSE <<c>>

RECURSIVE EscapeStr(_)
EscapeStr(s) == IF s = <<>> THEN <<>> ELSE EscapeChar(Head(s)) \o EscapeStr(Tail(s))

StrLex(s) == <<"str">> \o EscapeStr(s)

NumLex(n) == <<"num">> \o IntToStr(n)

BoolLex(b) == IF b THEN <<"true">> ELSE <<"false">>

\* One {"id": .., "title": .., "done": ..} object, keys in this order.
DumpTodo(t) ==
    << <<"{">>, StrLex(<<"i", "d">>), <<":">>, NumLex(t.id), <<",">>,
       StrLex(<<"t", "i", "t", "l", "e">>), <<":">>, StrLex(t.title), <<",">>,
       StrLex(<<"d", "o", "n", "e">>), <<":">>, BoolLex(t.done), <<"}">> >>

RECURSIVE DumpItems(_)
DumpItems(todos) ==
    IF todos = <<>> THEN <<>>
    ELSE IF Len(todos) = 1 THEN DumpTodo(todos[1])
    ELSE DumpTodo(todos[1]) \o << <<",">> >> \o DumpItems(Tail(todos))

\* json.dumps(data) of the list of dicts built from the todos.
Dumps(todos) == << <<"[">> >> \o DumpItems(todos) \o << <<"]">> >>

\* ------------------------------------------------------ json.loads decoder
\* The body of a string literal, unescaped; not ok when the body is no JSON
\* string (a raw quote or control character, an unknown or cut escape).
RECURSIVE Unescape(_)
Unescape(cs) ==
    IF cs = <<>> THEN [ok |-> TRUE, s |-> <<>>]
    ELSE IF Head(cs) = Backslash THEN
        IF Len(cs) < 2 \/ cs[2] \notin {Quote, Backslash, "t", "n"}
        THEN [ok |-> FALSE, s |-> <<>>]
        ELSE LET rest == Unescape(SubSeq(cs, 3, Len(cs)))
                 c == IF cs[2] = "t" THEN Tab
                      ELSE IF cs[2] = "n" THEN Newline ELSE cs[2]
             IN [ok |-> rest.ok, s |-> IF rest.ok THEN <<c>> \o rest.s ELSE <<>>]
    ELSE IF Head(cs) \in {Quote, Tab, Newline}
        THEN [ok |-> FALSE, s |-> <<>>]
    ELSE LET rest == Unescape(Tail(cs))
         IN [ok |-> rest.ok, s |-> IF rest.ok THEN <<Head(cs)>> \o rest.s ELSE <<>>]

\* Decoded JSON values, tagged by type.
JNull == [t |-> "null"]
JNum(n) == [t |-> "num", n |-> n]
JStr(s) == [t |-> "str", s |-> s]
JBool(b) == [t |-> "bool", b |-> b]
JArr(a) == [t |-> "arr", a |-> a]
JObj(o) == [t |-> "obj", o |-> o]
JFloat(x) == [t |-> "float", x |-> x]

PFail == [ok |-> FALSE, v |-> JNull, n |-> 0]
POk(v, n) == [ok |-> TRUE, v |-> v, n |-> n]

\* dict semantics: a repeated key keeps the last value.
PutKey(o, k, v) == [x \in (DOMAIN o) \cup {k} |-> IF x = k THEN v ELSE o[x]]

EmptyObj == [x \in {} |-> JNull]

RECURSIVE ParseValue(_, _), ParseItems(_, _, _), ParseMembers(_, _, _)

\* Parses one value starting at lexeme i; n is the index after it.  The
\* decoder takes NaN, Infinity and -Infinity, which JSON does not have, for
\* floats (parse_constant).
ParseValue(toks, i) ==
    IF i > Len(toks) THEN PFail
    ELSE LET k == toks[i][1] IN
        CASE k = "null" -> POk(JNull, i + 1)
          [] k = "true" -> POk(JBool(TRUE), i + 1)
          [] k = "false" -> POk(JBool(FALSE), i + 1)
          [] k \in {"NaN", "Infinity", "-Infinity"} -> POk(JFloat(k), i + 1)
          [] k = "num" ->
                IF IsIntLiteral(Tail(toks[i]))
                THEN POk(JNum(StrToInt(Tail(toks[i]))), i + 1) ELSE PFail
          [] k = "str" ->
                LET u == Unescape(Tail(toks[i]))
                IN IF u.ok THEN POk(JStr(u.s), i + 1) ELSE PFail
          [] k = "[" ->
                IF i + 1 <= Len(toks) /\ toks[i + 1][1] = "]"
                THEN POk(JArr(<<>>), i + 2)
                ELSE ParseItems(toks, i + 1, <<>>)
          [] k = "{" ->
                IF i + 1 <= Len(toks) /\ toks[i + 1][1] = "}"
                THEN POk(JObj(EmptyObj), i + 2)
                ELSE ParseMembers(toks, i + 1, EmptyObj)
          [] OTHER -> PFail

\* value ("," value)* "]"
ParseItems(toks, i, acc) ==
    LET r == ParseValue(toks, i) IN
    IF ~r.ok \/ r.n > Len(toks) THEN PFail
    ELSE IF toks[r.n][1] = "]" THEN POk(JArr(Append(acc, r.v)), r.n + 1)
    ELSE IF toks[r.n][1] = "," THEN ParseItems(toks, r.n + 1, Append(acc, r.v))
    ELSE PFail

\* string ":" value ("," string ":" value)* "}"
ParseMembers(toks, i, acc) ==
    IF i + 1 > Len(toks) \/ toks[i][1] # "str" \/ toks[i + 1][1] # ":" THEN PFail
    ELSE LET key == Unescape(Tail(toks[i]))
             r == ParseValue(toks, i + 2)
         IN IF ~key.ok \/ ~r.ok \/ r.n > Len(toks) THEN PFail
            ELSE IF toks[r.n][1] = "}"
                 THEN POk(JObj(PutKey(acc, key.s, r.v)), r.n + 1)
            ELSE IF toks[r.n][1] = ","
                 THEN ParseMembers(toks, r.n + 1, PutKey(acc, key.s, r.v))
            ELSE PFail

\* json.loads(text): one value and nothing after it, else JSONDecodeError.
Loads(text) ==
    LET r == ParseValue(text, 1)
    IN IF r.ok /\ r.n = Len(text) + 1 THEN [ok |-> TRUE, v |-> r.v]
       ELSE [ok |-> FALSE, v |-> JNull]

\* ------------------------------------------------------------ the Todo type
Todo(id, title, done) == [id |-> id, title |-> title, done |-> done]

KeyId == <<"i", "d">>
KeyTitle == <<"t", "i", "t", "l", "e">>
KeyDone == <<"d", "o", "n", "e">>

\* What a call hands back to its caller: a value ("ok") or a raised error.
\* The message of an error raised by the interpreter itself is left empty.
Ok(val) == [kind |-> "ok", msg |-> <<>>, val |-> val]
Raise(kind, msg) == [kind |-> kind, msg |-> msg, val |-> <<>>]

\* --------------------------------------------------------- the file system
\* A path holds a text or does not exist.
Absent == [exists |-> FALSE, text |-> <<>>]
File(text) == [exists |-> TRUE, text |-> text]

\* The Python value of a decoded scalar; containers stay as decoded.
PyVal(v) ==
    CASE v.t = "num" -> v.n
      [] v.t = "str" -> v.s
      [] v.t = "bool" -> v.b
      [] OTHER -> v

\* Todo(id=item["id"], title=item["title"], done=item["done"]) for one item:
\* subscripting a non-dict with a str raises TypeError, a missing key KeyError.
ItemError(item) ==
    IF item.t # "obj" THEN Raise("TypeError", <<>>)
    ELSE IF KeyId \notin DOMAIN item.o THEN Raise("KeyError", KeyId)
    ELSE IF KeyTitle \notin DOMAIN item.o THEN Raise("KeyError", KeyTitle)
    ELSE IF KeyDone \notin DOMAIN item.o THEN Raise("KeyError", KeyDone)
    ELSE Ok(<<>>)

ItemTodo(item) ==
    Todo(PyVal(item.o[KeyId]), PyVal(item.o[KeyTitle]), PyVal(item.o[KeyDone]))

\* The list comprehension over a decoded array: the first bad item raises.
ItemsToTodos(a) ==
    IF \E i \in 1..Len(a) : ItemError(a[i]).kind # "ok"
    THEN LET i == CHOOSE j \in 1..Len(a) :
                    /\ ItemError(a[j]).kind # "ok"
                    /\ \A k \in 1..(j - 1) : ItemError(a[k]).kind = "ok"
         IN ItemError(a[i])
    ELSE Ok([i \in 1..Len(a) |-> ItemTodo(a[i])])

\* Variant: if not isinstance(data, list): return []
DataToTodosLenient(data) ==
    IF data.t = "arr" THEN ItemsToTodos(data.a) ELSE Ok(<<>>)

\* The comprehension over whatever json.loads returned: iterating a dict
\* yields its keys and iterating a str its characters (each a str, whose
\* subscript by "id" raises TypeError); the other values are not iterable.
DataToTodos(data) ==
    CASE data.t = "arr" -> ItemsToTodos(data.a)
      [] data.t = "obj" ->
            IF DOMAIN data.o = {} THEN Ok(<<>>) ELSE Raise("TypeError", <<>>)
      [] data.t = "str" ->
            IF data.s = <<>> THEN Ok(<<>>) ELSE Raise("TypeError", <<>>)
      [] OTHER -> Raise("TypeError", <<>>)

\* Variant: a JSONDecodeError is not caught.
LoadStrict(f) ==
    IF ~f.exists THEN Ok(<<>>)
    ELSE LET d == Loads(f.text)
         IN IF ~d.ok THEN Raise("JSONDecodeError", <<>>) ELSE DataToTodos(d.v)

\* TodoStorage.load on a path holding f.
Load(f) ==
    IF ~f.exists THEN Ok(<<>>)
    ELSE LET d == Loads(f.text)
         IN IF ~d.ok THEN Ok(<<>>) ELSE DataToTodos(d.v)

\* -------------------------------------------------------------- the inputs
\* Process 1 and a second process on the same store.
Procs == {1, 2}

\* Titles a caller may pass: blank ones, and ones that need escaping or
\* carry surrounding whitespace.
Titles == { <<>>, <<" ", Tab>>, <<" ", "b", " ">>, <<Quote, Backslash>> }

IdArgs == 0..MaxIdArg

NoArg == [title |-> <<>>, id |-> 0, todos |-> <<>>]

\* ---------------------------------------------------------------- the state
VARIABLES
    file,      \* the store path: Absent or File(text)
    tmp,       \* the temporary files of the store's directory: name -> text
    pc,        \* per process: where it stands in its current call
    op,        \* per process: the call it is in or has finished
    arg,       \* per process: the arguments of that call
    todos,     \* per process: the list given to save
    jsonData,  \* per process: save's json_data
    tempPath,  \* per process: save's temp_path, 0 before mkstemp
    fd,        \* per process: the open descriptor from mkstemp, 0 when none
    exc,       \* per process: the exception in flight inside save, or Ok
    ret,       \* per process: what the call returns once save returns
    result,    \* per process: what the finished call handed to its caller
    file0,     \* per process: the store path as it was when the call began
    prev,      \* per process: the call before the current one and how it ended
    saves,     \* per process: how many times the current call entered save
    injected,  \* per process: the failure injected into the current call
    assigned,  \* the ids returned by successful add calls, in order
    everDone,  \* the ids a record of the store path was ever done under
    writer,    \* the process whose rename wrote the store path last, 0 if none
    cli,       \* per process: the command it runs, its output and exit code
    cmdsLeft,  \* number of commands that may still begin
    budget,    \* number of calls that may still begin
    faults     \* number of injected I/O failures and process stops

vars ==
    <<file, tmp, pc, op, arg, todos, jsonData, tempPath, fd, exc, ret, result,
      file0, prev, saves, injected, assigned, everDone, writer, cli,
      cmdsLeft, budget, faults>>

saveVars == <<todos, jsonData, tempPath, fd, exc, ret>>

\* What only the beginning of a call sets.
callVars == <<op, arg, file0, prev, saves, budget, cli, cmdsLeft>>

SavePcs == {"save_mkstemp", "save_write", "save_replace", "save_close"}

\* The ids of the records of f that are done.
DoneIds(f) ==
    LET r == Load(f) IN
    IF r.kind # "ok" THEN {}
    ELSE {r.val[i].id : i \in {j \in 1..Len(r.val) : r.val[j].done}}

\* No command: the manager or the storage is called directly.
NoCli ==
    [cmd |-> "none", stage |-> "exit", arg |-> NoArg, file0 |-> Absent,
     calls |-> <<>>, out |-> <<>>, err |-> <<>>, code |-> 0]

InitLocals(calls, cmds) ==
    /\ budget = calls
    /\ cmdsLeft = cmds
    /\ everDone = DoneIds(file)
    /\ writer = 0
    /\ cli = [p \in Procs |-> NoCli]
    /\ tmp = <<>>
    /\ pc = [p \in Procs |-> "idle"]
    /\ op = [p \in Procs |-> "none"]
    /\ arg = [p \in Procs |-> NoArg]
    /\ todos = [p \in Procs |-> <<>>]
    /\ jsonData = [p \in Procs |-> <<>>]
    /\ tempPath = [p \in Procs |-> 0]
    /\ fd = [p \in Procs |-> 0]
    /\ exc = [p \in Procs |-> Ok(<<>>)]
    /\ ret = [p \in Procs |-> <<>>]
    /\ result = [p \in Procs |-> Ok(<<>>)]
    /\ file0 = [p \in Procs |-> file]
    /\ prev = [p \in Procs |->
                [op |-> "none", arg |-> NoArg, kind |-> "ok", val |-> <<>>]]
    /\ saves = [p \in Procs |-> 0]
    /\ injected = [p \in Procs |-> <<>>]
    /\ assigned = <<>>
    /\ faults = 0

\* The store is absent, or holds the empty array.
Init ==
    /\ file \in {Absent, File(Dumps(<<>>))}
    /\ InitLocals(MaxOps, 0)

\* ------------------------------------------------------------ call and return
CanCall(p) == pc[p] \in {"idle", "done"} /\ budget > 0

\* The bookkeeping of beginning the call o with arguments a.
Begin(p, o, a) ==
    /\ op' = [op EXCEPT ![p] = o]
    /\ arg' = [arg EXCEPT ![p] = a]
    /\ file0' = [file0 EXCEPT ![p] = file]
    /\ prev' = [prev EXCEPT ![p] =
                    [op |-> op[p], arg |-> arg[p], kind |-> result[p].kind,
                     val |-> result[p].val]]
    /\ UNCHANGED <<cli, cmdsLeft>>
    /\ injected' = [injected EXCEPT ![p] = <<>>]
    /\ budget' = budget - 1

\* The call ends without reaching save: r goes to the caller.
Finish(p, r) ==
    /\ pc' = [pc EXCEPT ![p] = "done"]
    /\ result' = [result EXCEPT ![p] = r]

\* save(ts) is entered: data and json_data are computed; value is what the
\* caller of save returns afterwards.
EnterSave(p, ts, value) ==
    /\ todos' = [todos EXCEPT ![p] = ts]
    /\ jsonData' = [jsonData EXCEPT ![p] = Dumps(ts)]
    /\ tempPath' = [tempPath EXCEPT ![p] = 0]
    /\ fd' = [fd EXCEPT ![p] = 0]
    /\ exc' = [exc EXCEPT ![p] = Ok(<<>>)]
    /\ ret' = [ret EXCEPT ![p] = value]
    /\ saves' = [saves EXCEPT ![p] = 1]
    /\ pc' = [pc EXCEPT ![p] = "save_mkstemp"]

\* The call ends without calling save.
NoSave(p) == saves' = [saves EXCEPT ![p] = 0] /\ UNCHANGED saveVars

\* ------------------------------------------------------------- TodoManager
\* Variant: not title
BlankTitleNoStrip(title) == title = <<>>

\* not title.strip()
BlankTitle(title) == Strip(title) = <<>>

MaxOf(S) == CHOOSE m \in S : \A x \in S : x <= m

\* Variant: the id is the number of records, counted from zero.
NextIdZeroBased(ts) == Len(ts)

\* Variant: len(todos) + 1
NextIdByCount(ts) == Len(ts) + 1

\* Variant: the + 1 is missing.
NextIdNoIncrement(ts) ==
    IF ts = <<>> THEN 1 ELSE MaxOf({ts[i].id : i \in 1..Len(ts)})

\* Variant: todos[0].id + 1
NextIdFromFirst(ts) == IF ts = <<>> THEN 1 ELSE ts[1].id + 1

\* max(todo.id for todo in todos) + 1 if todos else 1
NextId(ts) ==
    IF ts = <<>> THEN 1 ELSE MaxOf({ts[i].id : i \in 1..Len(ts)}) + 1

\* Variant: the loop variable is used after the loop, so a scan without a
\* match ends on the last record.
FindLoopVar(ts, id) ==
    IF \E i \in 1..Len(ts) : ts[i].id = id
    THEN CHOOSE i \in 1..Len(ts) :
            /\ ts[i].id = id
            /\ \A j \in 1..(i - 1) : ts[j].id # id
    ELSE Len(ts)

\* Variant: the scan only looks at records that are not done.
FindPending(ts, id) ==
    IF \E i \in 1..Len(ts) : ts[i].id = id /\ ~ts[i].done
    THEN CHOOSE i \in 1..Len(ts) :
            /\ ts[i].id = id /\ ~ts[i].done
            /\ \A j \in 1..(i - 1) : ~(ts[j].id = id /\ ~ts[j].done)
    ELSE 0

\* Variant: the scan has no break and keeps the last match.
FindLast(ts, id) ==
    IF \E i \in 1..Len(ts) : ts[i].id = id
    THEN CHOOSE i \in 1..Len(ts) :
            /\ ts[i].id = id
            /\ \A j \in (i + 1)..Len(ts) : ts[j].id # id
    ELSE 0

\* The scan of mark_done: the index of the first todo with this id, 0 if none.
FindTodo(ts, id) ==
    IF \E i \in 1..Len(ts) : ts[i].id = id
    THEN CHOOSE i \in 1..Len(ts) :
            /\ ts[i].id = id
            /\ \A j \in 1..(i - 1) : ts[j].id # id
    ELSE 0

NotFoundMsg(id) == <<"Todo #">> \o IntToStr(id) \o <<" not found">>
AlreadyDoneMsg(id) == <<"Todo #">> \o IntToStr(id) \o <<" is already done">>
EmptyTitleMsg == <<"Title cannot be empty">>

\* Variant: the manager keeps the list of its last save and adds to it.
AddCached(p, title) ==
    /\ CanCall(p)
    /\ Begin(p, "add", [NoArg EXCEPT !.title = title])
    /\ IF BlankTitle(title)
       THEN Finish(p, Raise("ValueError", EmptyTitleMsg)) /\ NoSave(p)
       ELSE LET r == IF todos[p] # <<>> THEN Ok(todos[p]) ELSE Load(file) IN
            IF r.kind # "ok"
            THEN Finish(p, r) /\ NoSave(p)
            ELSE LET new == Todo(NextId(r.val), title, FALSE)
                 IN EnterSave(p, Append(r.val, new), <<new>>)
                    /\ UNCHANGED result
    /\ UNCHANGED <<file, everDone, writer, tmp, assigned, faults>>

\* Variant: todos.insert(0, new_todo)
AddPrepend(p, title) ==
    /\ CanCall(p)
    /\ Begin(p, "add", [NoArg EXCEPT !.title = title])
    /\ IF BlankTitle(title)
       THEN Finish(p, Raise("ValueError", EmptyTitleMsg)) /\ NoSave(p)
       ELSE LET r == Load(file) IN
            IF r.kind # "ok"
            THEN Finish(p, r) /\ NoSave(p)
            ELSE LET new == Todo(NextId(r.val), title, FALSE)
                 IN EnterSave(p, <<new>> \o r.val, <<new>>)
                    /\ UNCHANGED result
    /\ UNCHANGED <<file, everDone, writer, tmp, assigned, faults>>

\* TodoManager.add up to its call of save.  The load is one read of the path.
Add(p, title) ==
    /\ CanCall(p)
    /\ Begin(p, "add", [NoArg EXCEPT !.title = title])
    /\ IF BlankTitle(title)
       THEN Finish(p, Raise("ValueError", EmptyTitleMsg)) /\ NoSave(p)
       ELSE LET r == Load(file) IN
            IF r.kind # "ok"
            THEN Finish(p, r) /\ NoSave(p)
            ELSE LET new == Todo(NextId(r.val), title, FALSE)
                 IN EnterSave(p, Append(r.val, new), <<new>>)
                    /\ UNCHANGED result
    /\ UNCHANGED <<file, everDone, writer, tmp, assigned, faults>>

\* Variant: only the todos that are not done are returned.
ListAllPending(p) ==
    /\ CanCall(p)
    /\ Begin(p, "list_all", NoArg)
    /\ LET r == Load(file) IN
       Finish(p, IF r.kind # "ok" THEN r
                 ELSE Ok(SelectSeq(r.val, LAMBDA t : ~t.done)))
    /\ UNCHANGED <<file, everDone, writer, tmp, assigned, faults>>
    /\ NoSave(p)

\* Variant: list_all writes back what it loaded.
ListAllResave(p) ==
    /\ CanCall(p)
    /\ Begin(p, "list_all", NoArg)
    /\ LET r == Load(file) IN
       IF r.kind # "ok"
       THEN Finish(p, r) /\ NoSave(p)
       ELSE EnterSave(p, r.val, r.val) /\ UNCHANGED result
    /\ UNCHANGED <<file, everDone, writer, tmp, assigned, faults>>

\* TodoManager.list_all
ListAll(p) ==
    /\ CanCall(p)
    /\ Begin(p, "list_all", NoArg)
    /\ Finish(p, Load(file))
    /\ UNCHANGED <<file, everDone, writer, tmp, assigned, faults>>
    /\ NoSave(p)

\* TodoManager.mark_done up to its call of save.
MarkDone(p, id) ==
    /\ CanCall(p)
    /\ Begin(p, "mark_done", [NoArg EXCEPT !.id = id])
    /\ LET r == Load(file) IN
       IF r.kind # "ok"
       THEN Finish(p, r) /\ NoSave(p)
       ELSE LET i == FindTodo(r.val, id) IN
            IF i = 0
            THEN Finish(p, Raise("ValueError", NotFoundMsg(id)))
                 /\ NoSave(p)
            ELSE IF r.val[i].done
            THEN Finish(p, Raise("ValueError", AlreadyDoneMsg(id)))
                 /\ NoSave(p)
            ELSE EnterSave(p, [r.val EXCEPT ![i].done = TRUE], <<>>)
                 /\ UNCHANGED result
    /\ UNCHANGED <<file, everDone, writer, tmp, assigned, faults>>

\* ------------------------------------------------------- TodoStorage.save
\* mkstemp creates a file under a name no file of the directory has.
FreshName == CHOOSE n \in 1..(Cardinality(DOMAIN tmp) + 1) :
                /\ n \notin DOMAIN tmp
                /\ \A m \in 1..(n - 1) : m \in DOMAIN tmp

WithTmp(n, text) == [x \in (DOMAIN tmp) \cup {n} |-> IF x = n THEN text ELSE tmp[x]]

WithoutTmp(n) == [x \in (DOMAIN tmp) \ {n} |-> tmp[x]]

\* Where a write that stops early may leave a text: after its first lexeme
\* or before its last.
Cuts(text) == {1, Len(text) - 1}

\* Injects the failure named what into the call of p.
Fault(p, what) ==
    /\ faults < MaxFaults
    /\ faults' = faults + 1
    /\ injected' = [injected EXCEPT ![p] = what]

\* fd, temp_path = tempfile.mkstemp(...): an empty file, opened.
SaveMkstemp(p) ==
    /\ pc[p] = "save_mkstemp"
    /\ tmp' = WithTmp(FreshName, <<>>)
    /\ tempPath' = [tempPath EXCEPT ![p] = FreshName]
    /\ fd' = [fd EXCEPT ![p] = FreshName]
    /\ pc' = [pc EXCEPT ![p] = "save_write"]
    /\ UNCHANGED <<file, everDone, writer, todos, jsonData, exc, ret, result, injected,
                   assigned, faults>>
    /\ UNCHANGED callVars

\* mkstemp raises (the directory is not writable): it is called outside the
\* try, the error goes straight to the caller.
SaveMkstempFail(p) ==
    /\ pc[p] = "save_mkstemp"
    /\ Fault(p, <<"mkstemp">>)
    /\ Finish(p, Raise("OSError", <<"mkstemp">>))
    /\ UNCHANGED <<file, everDone, writer, tmp, assigned>>
    /\ UNCHANGED saveVars
    /\ UNCHANGED callVars

\* Variant: the text is written to the store path itself.
SaveWritePartInPlace(p) ==
    /\ pc[p] = "save_write"
    /\ tmp[tempPath[p]] = <<>>
    /\ \E k \in Cuts(jsonData[p]) :
          file' = File(SubSeq(jsonData[p], 1, k))
    /\ UNCHANGED <<everDone, writer, tmp, pc, result, injected, assigned, faults>>
    /\ UNCHANGED saveVars
    /\ UNCHANGED callVars

\* Path(temp_path).write_text(json_data), the part of it written so far.
SaveWritePart(p) ==
    /\ pc[p] = "save_write"
    /\ tmp[tempPath[p]] = <<>>
    /\ \E k \in Cuts(jsonData[p]) :
          tmp' = WithTmp(tempPath[p], SubSeq(jsonData[p], 1, k))
    /\ UNCHANGED <<file, everDone, writer, pc, result, injected, assigned, faults>>
    /\ UNCHANGED saveVars
    /\ UNCHANGED callVars

\* write_text completes.
SaveWrite(p) ==
    /\ pc[p] = "save_write"
    /\ tmp' = WithTmp(tempPath[p], jsonData[p])
    /\ pc' = [pc EXCEPT ![p] = "save_replace"]
    /\ UNCHANGED <<file, everDone, writer, result, injected, assigned, faults>>
    /\ UNCHANGED saveVars
    /\ UNCHANGED callVars

\* write_text raises (the disk is full): control enters the finally block.
SaveWriteFail(p) ==
    /\ pc[p] = "save_write"
    /\ Fault(p, <<"write_text">>)
    /\ exc' = [exc EXCEPT ![p] = Raise("OSError", <<"write_text">>)]
    /\ pc' = [pc EXCEPT ![p] = "save_close"]
    /\ UNCHANGED <<file, everDone, writer, tmp, todos, jsonData, tempPath, fd, ret, result,
                   assigned>>
    /\ UNCHANGED callVars

\* Variant: a record that is done in the path at the rename stays done.
SaveReplaceMergeDone(p) ==
    /\ pc[p] = "save_replace"
    /\ LET merged == [i \in 1..Len(todos[p]) |->
                        [todos[p][i] EXCEPT
                            !.done = @ \/ todos[p][i].id \in DoneIds(file)]]
       IN /\ file' = File(Dumps(merged))
          /\ everDone' = everDone \cup DoneIds(File(Dumps(merged)))
    /\ writer' = p
    /\ tmp' = WithoutTmp(tempPath[p])
    /\ pc' = [pc EXCEPT ![p] = "save_close"]
    /\ UNCHANGED <<result, injected, assigned, faults>>
    /\ UNCHANGED saveVars
    /\ UNCHANGED callVars

\* Variant: the rename does not overwrite a path written since the load.
SaveReplaceKeepFirst(p) ==
    /\ pc[p] = "save_replace"
    /\ IF file = file0[p]
       THEN /\ file' = File(tmp[tempPath[p]])
            /\ everDone' = everDone \cup DoneIds(File(tmp[tempPath[p]]))
       ELSE UNCHANGED <<file, everDone>>
    /\ writer' = p
    /\ tmp' = WithoutTmp(tempPath[p])
    /\ pc' = [pc EXCEPT ![p] = "save_close"]
    /\ UNCHANGED <<result, injected, assigned, faults>>
    /\ UNCHANGED saveVars
    /\ UNCHANGED callVars

\* Variant: add puts its record after what the path holds at the rename.
SaveReplaceAppend(p) ==
    /\ pc[p] = "save_replace"
    /\ LET text == IF op[p] = "add" /\ Load(file).kind = "ok"
                   THEN Dumps(Load(file).val \o ret[p])
                   ELSE tmp[tempPath[p]]
       IN /\ file' = File(text)
          /\ everDone' = everDone \cup DoneIds(File(text))
    /\ writer' = p
    /\ tmp' = WithoutTmp(tempPath[p])
    /\ pc' = [pc EXCEPT ![p] = "save_close"]
    /\ UNCHANGED <<result, injected, assigned, faults>>
    /\ UNCHANGED saveVars
    /\ UNCHANGED callVars

\* Variant: the rename is refused when the store is no longer what the
\* caller loaded.
SaveReplaceChecked(p) ==
    /\ pc[p] = "save_replace"
    /\ IF file = file0[p]
       THEN /\ file' = File(tmp[tempPath[p]])
            /\ everDone' = everDone \cup DoneIds(File(tmp[tempPath[p]]))
            /\ writer' = p
            /\ tmp' = WithoutTmp(tempPath[p])
            /\ UNCHANGED exc
       ELSE /\ exc' = [exc EXCEPT ![p] = Raise("OSError", <<"conflict">>)]
            /\ UNCHANGED <<file, everDone, writer, tmp>>
    /\ pc' = [pc EXCEPT ![p] = "save_close"]
    /\ UNCHANGED <<result, injected, assigned, faults>>
    /\ UNCHANGED <<todos, jsonData, tempPath, fd, ret>>
    /\ UNCHANGED callVars

\* Path(temp_path).replace(self.storage_path): one atomic rename.
SaveReplace(p) ==
    /\ pc[p] = "save_replace"
    /\ file' = File(tmp[tempPath[p]])
    /\ everDone' = everDone \cup DoneIds(File(tmp[tempPath[p]]))
    /\ writer' = p
    /\ tmp' = WithoutTmp(tempPath[p])
    /\ pc' = [pc EXCEPT ![p] = "save_close"]
    /\ UNCHANGED <<result, injected, assigned, faults>>
    /\ UNCHANGED saveVars
    /\ UNCHANGED callVars

\* The rename is rejected: control enters the finally block.
SaveReplaceFail(p) ==
    /\ pc[p] = "save_replace"
    /\ Fault(p, <<"replace">>)
    /\ exc' = [exc EXCEPT ![p] = Raise("OSError", <<"replace">>)]
    /\ pc' = [pc EXCEPT ![p] = "save_close"]
    /\ UNCHANGED <<file, everDone, writer, tmp, todos, jsonData, tempPath, fd, ret, result,
                   assigned>>
    /\ UNCHANGED callVars

\* Variant: the finally block returns, which drops the exception in flight.
SaveCloseSwallow(p) ==
    /\ pc[p] = "save_close"
    /\ fd' = [fd EXCEPT ![p] = 0]
    /\ Finish(p, Ok(ret[p]))
    /\ assigned' = IF op[p] = "add" /\ exc[p].kind = "ok"
                   THEN Append(assigned, ret[p][1].id) ELSE assigned
    /\ UNCHANGED <<file, everDone, writer, tmp, todos, jsonData, tempPath, exc, ret, injected,
                   faults>>
    /\ UNCHANGED callVars

\* finally: os.close(fd), an OSError of close itself being dropped; then the
\* exception in flight is raised again, or save returns and its caller
\* returns its value.
SaveClose(p) ==
    /\ pc[p] = "save_close"
    /\ fd' = [fd EXCEPT ![p] = 0]
    /\ Finish(p, IF exc[p].kind # "ok" THEN exc[p] ELSE Ok(ret[p]))
    /\ assigned' = IF op[p] = "add" /\ exc[p].kind = "ok"
                   THEN Append(assigned, ret[p][1].id) ELSE assigned
    /\ UNCHANGED <<file, everDone, writer, tmp, todos, jsonData, tempPath, exc, ret, injected,
                   faults>>
    /\ UNCHANGED callVars

\* The process stops inside save (killed, power loss): nothing of it runs
\* any more and the system closes its descriptor.
Stop(p) ==
    /\ pc[p] \in SavePcs
    /\ Fault(p, <<"stop", pc[p]>>)
    /\ fd' = [fd EXCEPT ![p] = 0]
    /\ Finish(p, Raise("killed", <<>>))
    /\ UNCHANGED <<file, everDone, writer, tmp, todos, jsonData, tempPath, exc, ret, assigned>>
    /\ UNCHANGED callVars

SaveStep(p) ==
    \/ SaveMkstemp(p)
    \/ SaveMkstempFail(p)
    \/ SaveWritePart(p)
    \/ SaveWrite(p)
    \/ SaveWriteFail(p)
    \/ SaveReplace(p)
    \/ SaveReplaceFail(p)
    \/ SaveClose(p)
    \/ Stop(p)

ManagerCall(p) ==
    \/ \E title \in Titles : Add(p, title)
    \/ ListAll(p)
    \/ \E id \in IdArgs : MarkDone(p, id)

\* One process, one call after the other.
Next == ManagerCall(1) \/ SaveStep(1)

Spec == Init /\ [][Next]_vars

\* Several processes on the same store, their steps interleaved.
NextConc == \E p \in Procs : ManagerCall(p) \/ SaveStep(p)

\* ------------------------------------------------ TodoStorage called directly
\* Sequences a caller may hand to save: ids of one and two digits and an id
\* given twice, titles with characters json.dumps escapes, both values of done.
SaveArgs ==
    { <<>>,
      <<Todo(1, <<" ", "a">>, FALSE)>>,
      <<Todo(12, <<Quote, Backslash, Tab>>, TRUE), Todo(1, <<" ", "a">>, FALSE)>>,
      <<Todo(3, <<"a">>, FALSE), Todo(3, <<"b", Quote>>, TRUE),
        Todo(2, <<Backslash, "t">>, FALSE)>> }

\* storage.save(ts) up to mkstemp.
StorageSave(p, ts) ==
    /\ CanCall(p)
    /\ Begin(p, "save", [NoArg EXCEPT !.todos = ts])
    /\ EnterSave(p, ts, <<>>)
    /\ UNCHANGED <<file, everDone, writer, tmp, result, assigned, faults>>

\* storage.load()
StorageLoad(p) ==
    /\ CanCall(p)
    /\ Begin(p, "load", NoArg)
    /\ Finish(p, Load(file))
    /\ UNCHANGED <<file, everDone, writer, tmp, assigned, faults>>
    /\ NoSave(p)

StorageCall(p) ==
    \/ \E ts \in SaveArgs : StorageSave(p, ts)
    \/ StorageLoad(p)

\* --------------------------------------------- stores found at the path
\* Texts json.dumps wrote for sequences of records: in id order or not, an
\* id met twice, an id of which add makes a two-digit one.
StoredSeqs ==
    { <<>>,
      <<Todo(1, <<"a">>, FALSE)>>,
      <<Todo(2, <<Quote, Backslash>>, TRUE), Todo(1, <<" ", "b", " ">>, FALSE)>>,
      <<Todo(2, <<"a">>, FALSE), Todo(2, <<"b">>, FALSE)>>,
      <<Todo(9, <<"a">>, FALSE)>> }

\* Texts that are not JSON: the empty file, a word, an array cut before its
\* end, text after the value, a raw quote inside a string, the word NaN.
MalformedTexts ==
    { <<>>,
      << <<"bad">> >>,
      << <<"NaN">> >>,
      SubSeq(Dumps(<<Todo(1, <<"a">>, FALSE)>>), 1, 14),
      << <<"[">>, <<"]">>, <<"]">> >>,
      << <<"[">>, <<"str", Quote>>, <<"]">> >> }

\* Texts that are JSON but no array of {id, title, done} objects.
OtherJsonTexts ==
    { << <<"null">> >>,
      << <<"num", "7">> >>,
      << <<"{">>, <<"}">> >>,
      << <<"str">> >>,
      << <<"[">>, <<"num", "1">>, <<"]">> >>,
      << <<"[">>, <<"{">>, StrLex(KeyId), <<":">>, <<"num", "1">>, <<",">>,
         StrLex(KeyTitle), <<":">>, StrLex(<<"a">>), <<"}">>, <<"]">> >> }

InitFiles ==
    {Absent} \cup {File(Dumps(ts)) : ts \in StoredSeqs}
             \cup {File(text) : text \in MalformedTexts \cup OtherJsonTexts}

\* Whatever was left at the path before the program runs.
InitAny ==
    /\ file \in InitFiles
    /\ InitLocals(MaxAnyOps, 0)

\* The manager, one call after the other, on any store.
SpecAny == InitAny /\ [][Next]_vars

\* The storage alone, one call after the other, on any store.
NextStorage == StorageCall(1) \/ SaveStep(1)

SpecStorage == InitAny /\ [][NextStorage]_vars

\* Process 1 calls the manager while process 2 reads the store.
NextRW == ManagerCall(1) \/ SaveStep(1) \/ ListAll(2)

SpecRW == Init /\ [][NextRW]_vars

\* save of p goes on without a failure.
SaveRun(p) ==
    \/ SaveMkstemp(p)
    \/ SaveWrite(p)
    \/ SaveReplace(p)
    \/ SaveClose(p)

\* A call that may write the store: add of a title that passes the check,
\* or mark_done.
WriterCall(p) ==
    \/ \E title \in {t \in Titles : ~BlankTitle(t)} : Add(p, title)
    \/ \E id \in IdArgs : MarkDone(p, id)

\* Several processes add and mark done, their loads and the steps of their
\* saves interleaved.
NextWriters == \E p \in Procs : WriterCall(p) \/ SaveRun(p)

SpecWriters == Init /\ [][NextWriters]_vars

\* A step of save fails and the error reaches the caller.
SaveFail(p) ==
    \/ SaveMkstempFail(p)
    \/ SaveWriteFail(p)
    \/ SaveReplaceFail(p)

\* One process whose every call comes back, with a value or an error.
NextRun ==
    \/ ManagerCall(1)
    \/ SaveRun(1)
    \/ SaveWritePart(1)
    \/ SaveFail(1)

SpecRun == Init /\ [][NextRun]_vars

\* storage = TodoStorage(path); manager = TodoManager(storage): process q
\* drops the objects of its last call and builds new ones.
Construct(q) ==
    /\ pc[q] = "done"
    /\ pc' = [pc EXCEPT ![q] = "idle"]
    /\ todos' = [todos EXCEPT ![q] = <<>>]
    /\ jsonData' = [jsonData EXCEPT ![q] = <<>>]
    /\ tempPath' = [tempPath EXCEPT ![q] = 0]
    /\ fd' = [fd EXCEPT ![q] = 0]
    /\ exc' = [exc EXCEPT ![q] = Ok(<<>>)]
    /\ ret' = [ret EXCEPT ![q] = <<>>]
    /\ UNCHANGED <<file, everDone, writer, tmp, result, injected, assigned,
                   faults>>
    /\ UNCHANGED callVars

\* Process q, with objects just built, makes the call process r is in or
\* has ended, on the store as r loaded it.
Replay(q, r) ==
    /\ pc[q] = "idle"
    /\ pc[r] # "idle"
    /\ file = file0[r]
    /\ \/ op[r] = "add" /\ Add(q, arg[r].title)
       \/ op[r] = "list_all" /\ ListAll(q)
       \/ op[r] = "mark_done" /\ MarkDone(q, arg[r].id)

\* Process q is not inside a call.
Between(q) == pc[q] \in {"idle", "done"}

\* Process 1 keeps one manager for all its calls; process 2 repeats each of
\* them with a manager built for that call, from its start to its end while
\* process 1 waits.
NextFresh ==
    \/ Between(2) /\ ManagerCall(1)
    \/ Between(2) /\ SaveStep(1)
    \/ Construct(2)
    \/ Replay(2, 1)
    \/ SaveRun(2)

SpecFresh == Init /\ [][NextFresh]_vars

\* A store of two todos, neither done.
TwoPending == <<Todo(1, <<"a">>, FALSE), Todo(2, <<"b">>, FALSE)>>

\* A store the program wrote earlier, or none; every process is started
\* once.
InitConc ==
    /\ file \in {Absent} \cup {File(Dumps(ts)) : ts \in StoredSeqs}
                      \cup {File(Dumps(TwoPending))}
    /\ InitLocals(Cardinality(Procs), 0)

\* Two processes on the same store, each with its own manager.
SpecConc == InitConc /\ [][NextConc]_vars

\* =================================================================== claims
\* A title with at least one character that is not whitespace.
HasInk(title) ==
    \E i \in 1..Len(title) : title[i] \notin {" ", Tab, Newline}

\* The call of p has ended and was a call of o.
Ended(p, o) == pc[p] = "done" /\ op[p] = o

\* The call of p ended by itself: no failure was injected into it.
Undisturbed(p) == injected[p] = <<>>

\* C1: a load that follows a successful save(ts) on the same path returns
\* exactly ts: same length, same order, equal id, title and done.
C1_RoundTrip ==
    \A p \in Procs :
        (Ended(p, "load") /\ prev[p].op = "save" /\ prev[p].kind = "ok")
            => /\ result[p].kind = "ok"
               /\ Len(result[p].val) = Len(prev[p].arg.todos)
               /\ \A i \in 1..Len(result[p].val) :
                     /\ result[p].val[i].id = prev[p].arg.todos[i].id
                     /\ result[p].val[i].title = prev[p].arg.todos[i].title
                     /\ result[p].val[i].done = prev[p].arg.todos[i].done

C1_Witness ==
    /\ Ended(1, "load") /\ prev[1].op = "save" /\ prev[1].kind = "ok"
    /\ Len(prev[1].arg.todos) = 3
    /\ Len(result[1].val) = 3
    /\ result[1].val[2].title = <<"b", Quote>>

\* A path that is absent or holds the whole text json.dumps gives for a
\* sequence of records.
Complete(f) ==
    ~f.exists \/ (Load(f).kind = "ok" /\ f.text = Dumps(Load(f).val))

\* C2: while a save is in progress the store path holds either what it held
\* when the call began or the whole new text, and what any call reads from
\* the path, also between two steps of a save, is a whole text.
C2_AtomicReplace ==
    /\ Complete(file)
    /\ \A p \in Procs :
          pc[p] \in SavePcs => file \in {file0[p], File(jsonData[p])}
    /\ \A p \in Procs :
          Ended(p, "list_all")
              => /\ result[p].kind = "ok"
                 /\ Complete(file0[p])
                 /\ file0[p].exists => file0[p].text = Dumps(result[p].val)

\* Process 2 read the new text after the rename and before save returned.
C2_Witness ==
    /\ pc[1] = "save_close"
    /\ file = File(jsonData[1]) /\ file # file0[1]
    /\ Ended(2, "list_all") /\ file0[2] = file
    /\ result[2].val = todos[1]

\* C3: when mkstemp, write_text or the rename fails, the store path holds
\* what it held before the call and the caller of add or mark_done gets that
\* very OSError; when the process stops before the rename, the store path
\* holds what it held before the call.
C3_FailedSave ==
    \A p \in Procs :
        /\ (injected[p] # <<>> /\ injected[p][1] # "stop")
              => /\ file = file0[p]
                 /\ pc[p] = "done" => result[p] = Raise("OSError", injected[p])
        /\ (injected[p] # <<>> /\ injected[p][1] = "stop"
                /\ injected[p][2] # "save_close")
              => file = file0[p]

C3_Witness ==
    /\ Ended(1, "mark_done")
    /\ injected[1] = <<"replace">>
    /\ result[1].kind = "OSError"
    /\ file0[1].exists /\ file = file0[1]

\* C4: once save has returned or raised, the temporary file it created is
\* gone from the directory and its descriptor is closed.
C4_TempRemoved ==
    \A p \in Procs :
        (pc[p] = "done" /\ saves[p] = 1 /\ tempPath[p] # 0
            /\ result[p].kind # "killed")
            => tempPath[p] \notin DOMAIN tmp /\ fd[p] = 0

\* C5: load on a path that is absent, empty or holds text that is not JSON
\* returns the empty sequence, raises nothing and leaves the path as it was.
C5_LoadTolerant ==
    \A p \in Procs :
        (Ended(p, "load")
            /\ (~file0[p].exists \/ file0[p].text \in MalformedTexts))
            => result[p] = Ok(<<>>) /\ file = file0[p] /\ saves[p] = 0

\* C6: add of a title with a non-whitespace character on the stored
\* sequence s returns the Todo with id 1 if s is empty, else the largest id
\* of s plus one, with the title as given and done false; the store is then
\* s followed by that Todo.
C6_Add ==
    \A p \in Procs :
        (Ended(p, "add") /\ HasInk(arg[p].title) /\ Undisturbed(p)
            /\ Load(file0[p]).kind = "ok")
            => LET s == Load(file0[p]).val
                   now == Load(file)
                   ids == {s[i].id : i \in 1..Len(s)}
               IN /\ result[p].kind = "ok" /\ Len(result[p].val) = 1
                  /\ IF s = <<>> THEN result[p].val[1].id = 1
                     ELSE /\ result[p].val[1].id - 1 \in ids
                          /\ \A x \in ids : x < result[p].val[1].id
                  /\ result[p].val[1].title = arg[p].title
                  /\ result[p].val[1].done = FALSE
                  /\ now.kind = "ok" /\ Len(now.val) = Len(s) + 1
                  /\ \A i \in 1..Len(s) : now.val[i] = s[i]
                  /\ now.val[Len(s) + 1] = result[p].val[1]

C6_Witness ==
    /\ Ended(1, "add") /\ result[1].kind = "ok"
    /\ arg[1].title = <<" ", "b", " ">>
    /\ Len(Load(file0[1]).val) = 1
    /\ result[1].val[1].id = 10
    /\ Load(file).val[2].title = <<" ", "b", " ">>

\* C7: the ids returned by the successful add calls made one after the other
\* on a store are positive and strictly increasing, and an add on an empty
\* store returns id 1.
C7_IdsIncrease ==
    /\ \A i \in 1..Len(assigned) : assigned[i] >= 1
    /\ \A i \in 1..(Len(assigned) - 1) : assigned[i] < assigned[i + 1]
    /\ \A p \in Procs :
          (Ended(p, "add") /\ result[p].kind = "ok"
              /\ Load(file0[p]) = Ok(<<>>))
              => result[p].val[1].id = 1

C7_Witness ==
    /\ Len(assigned) = 3
    /\ assigned[1] = 1 /\ assigned[3] = 3
    /\ Ended(1, "add") /\ result[1].val[1].id = 3

\* C8: from an absent or empty store, whatever calls were made and however
\* they ended, every persisted record has an id >= 1 no other record has and
\* a title with a non-whitespace character.
C8_StoreValid ==
    LET now == Load(file) IN
    /\ now.kind = "ok"
    /\ \A i \in 1..Len(now.val) :
          /\ now.val[i].id >= 1
          /\ HasInk(now.val[i].title)
          /\ \A j \in 1..Len(now.val) : now.val[j].id = now.val[i].id => j = i

C8_Witness ==
    /\ Len(Load(file).val) = 2
    /\ Load(file).val[1].done
    /\ faults = 1
    /\ budget = 0 /\ pc[1] = "done"

\* C9: add of an empty or whitespace-only title raises the validation error
\* "Title cannot be empty", returns no Todo, performs no save and leaves the
\* store path as it was, absent if it was absent.
C9_BlankTitle ==
    \A p \in Procs :
        (Ended(p, "add") /\ ~HasInk(arg[p].title))
            => /\ result[p] = Raise("ValueError", <<"Title cannot be empty">>)
               /\ saves[p] = 0
               /\ file = file0[p]

C9_Witness ==
    /\ Ended(1, "add") /\ arg[1].title = <<" ", Tab>>
    /\ result[1].kind = "ValueError"
    /\ ~file.exists

\* C10: mark_done(id), when the first stored record with that id is not
\* done, sets done on that record alone and persists the sequence: length,
\* order, ids, titles and the other done flags are as before.
C10_MarkDone ==
    \A p \in Procs :
        (Ended(p, "mark_done") /\ Undisturbed(p) /\ Load(file0[p]).kind = "ok")
            => LET s == Load(file0[p]).val
                   now == Load(file)
                   hits == {i \in 1..Len(s) : s[i].id = arg[p].id}
               IN \A i \in hits :
                     ((\A j \in hits : i <= j) /\ ~s[i].done)
                        => /\ result[p] = Ok(<<>>)
                           /\ saves[p] = 1
                           /\ now.kind = "ok" /\ Len(now.val) = Len(s)
                           /\ now.val[i] = Todo(s[i].id, s[i].title, TRUE)
                           /\ \A j \in 1..Len(s) : j # i => now.val[j] = s[j]

C10_Witness ==
    /\ Ended(1, "mark_done") /\ arg[1].id = 2 /\ result[1].kind = "ok"
    /\ Len(Load(file0[1]).val) = 2
    /\ Load(file0[1]).val[2].id = 2 /\ ~Load(file0[1]).val[2].done
    /\ Load(file).val[1].done /\ ~Load(file).val[2].done

\* ------------------------------------------------------------------ the CLI
\* cli[p] is the command process p runs: its argument, the calls of the
\* manager that have come back, what it wrote to stdout and stderr, and its
\* exit code once stage is "exit".

MaxCmds == 2

\* The titles a command line can carry: those of Titles and one with a line
\* break in it.
CliTitles == Titles \cup { <<"a", Newline, "b">> }

\* The check mark of a done todo, named by its code point.
CheckMark == "U+2713"

\* typer.echo(message): the message and a line break go to the stream.
Echo(stream, msg) == stream \o msg \o <<Newline>>

\* f'Added todo #{new_todo.id}: "{new_todo.title}"'
AddedMsg(t) ==
    <<"Added todo #">> \o IntToStr(t.id) \o <<": ", Quote>> \o t.title
        \o <<Quote>>

\* f'Marked todo #{todo_id} as done: "{t.title}"'
MarkedMsg(id, title) ==
    <<"Marked todo #">> \o IntToStr(id) \o <<" as done: ", Quote>> \o title
        \o <<Quote>>

\* Variant: the mark is set for the todos that are not done.
ListLineInverted(t) ==
    <<"[", IF t.done THEN " " ELSE CheckMark, "] #">> \o IntToStr(t.id)
        \o <<": ">> \o t.title

\* f"[{status}] #{todo.id}: {todo.title}"
ListLine(t) ==
    <<"[", IF t.done THEN CheckMark ELSE " ", "] #">> \o IntToStr(t.id)
        \o <<": ">> \o t.title

RECURSIVE EchoTodos(_, _)
EchoTodos(stream, ts) ==
    IF ts = <<>> THEN stream
    ELSE EchoTodos(Echo(stream, ListLine(Head(ts))), Tail(ts))

\* Variant: the command goes on to mark_done whatever it found.
DonePrecheckOff(ts, id) == FALSE

\* todo and todo.done, for the first record with the id.
DonePrecheck(ts, id) == FindTodo(ts, id) # 0 /\ ts[FindTodo(ts, id)].done

\* Variant: the handler prints the message and returns.
ExitErrorNoExit(c, msg) ==
    [c EXCEPT !.err = Echo(@, <<"Error: ">> \o msg), !.stage = "exit"]

\* typer.echo(f"Error: ...", err=True); sys.exit(1)
ExitError(c, msg) ==
    [c EXCEPT !.err = Echo(@, <<"Error: ">> \o msg), !.code = 1,
              !.stage = "exit"]

\* Variant: the except ValueError clause is missing.
HandleNoValueError(c, r) ==
    IF r.kind = "killed" THEN [c EXCEPT !.stage = "killed"]
    ELSE ExitError(c, <<"Failed to save todo: ">> \o r.msg)

\* except ValueError / except Exception of add and done; a stopped process
\* runs no handler.
Handle(c, r) ==
    IF r.kind = "killed" THEN [c EXCEPT !.stage = "killed"]
    ELSE IF r.kind = "ValueError" THEN ExitError(c, r.msg)
    ELSE ExitError(c, <<"Failed to save todo: ">> \o r.msg)

\* add, after manager.add came back with r.
AddReturn(c, r) ==
    IF r.kind # "ok" THEN Handle(c, r)
    ELSE [c EXCEPT !.out = Echo(@, AddedMsg(r.val[1])), !.stage = "exit"]

\* list, after manager.list_all came back with r.
ListReturn(c, r) ==
    IF r.kind # "ok" THEN ExitError(c, <<"Failed to load todos: ">> \o r.msg)
    ELSE IF r.val = <<>>
    THEN [c EXCEPT !.out = Echo(@, <<"No todos found">>), !.stage = "exit"]
    ELSE [c EXCEPT !.out = EchoTodos(@, r.val), !.stage = "exit"]

\* done, after the call of its stage came back with r.
DoneReturn(c, r) ==
    IF r.kind # "ok" THEN Handle(c, r)
    ELSE IF c.stage = "call_list1" THEN
        IF DonePrecheck(r.val, c.arg.id)
        THEN [c EXCEPT !.out = Echo(@, AlreadyDoneMsg(c.arg.id)),
                       !.stage = "exit"]
        ELSE [c EXCEPT !.stage = "call_mark"]
    ELSE IF c.stage = "call_mark" THEN [c EXCEPT !.stage = "call_list2"]
    ELSE IF FindTodo(r.val, c.arg.id) # 0
    THEN [c EXCEPT !.out = Echo(@, MarkedMsg(c.arg.id,
                                   r.val[FindTodo(r.val, c.arg.id)].title)),
                   !.stage = "exit"]
    ELSE [c EXCEPT !.stage = "exit"]

CliOver(p) == cli[p].stage \in {"exit", "killed"}

\* A command starts in process p, a new run of the program with nothing
\* left of the last one: storage = TodoStorage(DEFAULT_TODO_FILE);
\* manager = TodoManager(storage).  A command calls the manager three times
\* at most.
CliStart(p, cmd, a) ==
    /\ cmdsLeft > 0
    /\ CliOver(p)
    /\ pc[p] \in {"idle", "done"}
    /\ cmdsLeft' = cmdsLeft - 1
    /\ cli' = [cli EXCEPT ![p] =
                  [cmd |-> cmd,
                   stage |-> IF cmd = "add" THEN "call_add"
                             ELSE IF cmd = "list" THEN "call_list"
                             ELSE "call_list1",
                   arg |-> a, file0 |-> file, calls |-> <<>>,
                   out |-> <<>>, err |-> <<>>, code |-> 0]]
    /\ pc' = [pc EXCEPT ![p] = "idle"]
    /\ todos' = [todos EXCEPT ![p] = <<>>]
    /\ jsonData' = [jsonData EXCEPT ![p] = <<>>]
    /\ tempPath' = [tempPath EXCEPT ![p] = 0]
    /\ fd' = [fd EXCEPT ![p] = 0]
    /\ exc' = [exc EXCEPT ![p] = Ok(<<>>)]
    /\ ret' = [ret EXCEPT ![p] = <<>>]
    /\ op' = [op EXCEPT ![p] = "none"]
    /\ arg' = [arg EXCEPT ![p] = NoArg]
    /\ result' = [result EXCEPT ![p] = Ok(<<>>)]
    /\ file0' = [file0 EXCEPT ![p] = file]
    /\ prev' = [prev EXCEPT ![p] =
                    [op |-> "none", arg |-> NoArg, kind |-> "ok",
                     val |-> <<>>]]
    /\ saves' = [saves EXCEPT ![p] = 0]
    /\ injected' = [injected EXCEPT ![p] = <<>>]
    /\ budget' = 3 * Cardinality(Procs)
    /\ UNCHANGED <<file, everDone, writer, tmp, assigned, faults>>

CliCommand(p) ==
    \/ \E title \in CliTitles : CliStart(p, "add", [NoArg EXCEPT !.title = title])
    \/ CliStart(p, "list", NoArg)
    \/ \E id \in IdArgs : CliStart(p, "done", [NoArg EXCEPT !.id = id])

\* The command calls the manager.
CliCall(p) ==
    /\ pc[p] = "idle"
    /\ \/ cli[p].stage = "call_add" /\ Add(p, cli[p].arg.title)
       \/ cli[p].stage \in {"call_list", "call_list1", "call_list2"}
             /\ ListAll(p)
       \/ cli[p].stage = "call_mark" /\ MarkDone(p, cli[p].arg.id)

\* The call came back: the command prints, goes on or exits.
CliReturn(p) ==
    /\ ~CliOver(p)
    /\ pc[p] = "done"
    /\ LET c == [cli[p] EXCEPT !.calls = Append(@, op[p])]
           new == IF c.cmd = "add" THEN AddReturn(c, result[p])
                  ELSE IF c.cmd = "list" THEN ListReturn(c, result[p])
                  ELSE DoneReturn(c, result[p])
       IN /\ cli' = [cli EXCEPT ![p] = new]
          /\ pc' = [pc EXCEPT ![p] =
                       IF new.stage \in {"exit", "killed"} THEN "done"
                       ELSE "idle"]
    /\ UNCHANGED <<file, everDone, writer, tmp, result, injected, assigned,
                   faults, op, arg, file0, prev, saves, budget, cmdsLeft>>
    /\ UNCHANGED saveVars

\* A store the program wrote earlier, or none; no command has started.
InitCli ==
    /\ file \in {Absent} \cup {File(Dumps(ts)) : ts \in StoredSeqs}
    /\ InitLocals(0, MaxCmds)

\* One command after the other.
NextCli == CliCommand(1) \/ CliCall(1) \/ SaveStep(1) \/ CliReturn(1)

SpecCli == InitCli /\ [][NextCli]_vars

CliDone(p) == \E id \in IdArgs : CliStart(p, "done", [NoArg EXCEPT !.id = id])

\* Done commands of several processes, the calls they make and the steps of
\* their saves interleaved.
NextDoneRace ==
    \E p \in Procs : CliDone(p) \/ CliCall(p) \/ SaveRun(p) \/ CliReturn(p)

SpecDoneRace == InitCli /\ [][NextDoneRace]_vars

\* The store path was written by json.dumps: it exists and holds none of the
\* foreign texts a store may start with.
Dumped(f) == f.exists /\ f.text \notin (MalformedTexts \cup OtherJsonTexts)

\* C11: mark_done on an id no stored record has raises "Todo #<id> not
\* found", enters no save and leaves the store path as it was, absent if it
\* was absent.
C11_NotFound ==
    \A p \in Procs :
        (Ended(p, "mark_done") /\ Load(file0[p]).kind = "ok"
            /\ \A i \in 1..Len(Load(file0[p]).val) :
                  Load(file0[p]).val[i].id # arg[p].id)
            => /\ result[p] = Raise("ValueError",
                      <<"Todo #">> \o IntToStr(arg[p].id) \o <<" not found">>)
               /\ saves[p] = 0
               /\ file = file0[p]

C11_Witness ==
    /\ Ended(1, "mark_done") /\ arg[1].id = 0
    /\ result[1].kind = "ValueError"
    /\ Len(Load(file0[1]).val) = 2
    /\ file = file0[1]

\* mark_done of an id that is done in the store raises "Todo #<id> is already
\* done", enters no save and leaves the store path as it was.
C12_AlreadyDone ==
    \A p \in Procs :
        (Ended(p, "mark_done") /\ arg[p].id \in DoneIds(file0[p]))
            => /\ result[p] = Raise("ValueError",
                      <<"Todo #">> \o IntToStr(arg[p].id)
                          \o <<" is already done">>)
               /\ saves[p] = 0
               /\ file = file0[p]

\* C12: once an id is done in the store it stays done through every step
\* that changes the store, and every mark_done of it raises "Todo #<id> is
\* already done" and changes nothing.
C12_OnceDone ==
    /\ []C12_AlreadyDone
    /\ [][file' # file => DoneIds(file) \subseteq DoneIds(file')]_vars

C12_Witness ==
    /\ Ended(1, "mark_done") /\ arg[1].id = 1
    /\ prev[1].op = "mark_done" /\ prev[1].arg.id = 1 /\ prev[1].kind = "ok"
    /\ result[1].kind = "ValueError"
    /\ everDone = {1}

\* C13: a step that changes the store keeps every record it held, at its
\* position, with its id and title, and keeps done where it was true.
C13_RecordsKept ==
    [][LET old == Load(file)
           new == Load(file')
       IN (file' # file /\ old.kind = "ok")
            => /\ new.kind = "ok"
               /\ Len(new.val) >= Len(old.val)
               /\ \A i \in 1..Len(old.val) :
                     /\ new.val[i].id = old.val[i].id
                     /\ new.val[i].title = old.val[i].title
                     /\ old.val[i].done => new.val[i].done]_vars

C13_Witness ==
    /\ Len(Load(file).val) = 2
    /\ Load(file).val[1].done /\ ~Load(file).val[2].done
    /\ everDone = {1}
    /\ writer = 1 /\ faults = 0 /\ budget = 0

\* C14: list_all returns the records of the store path in the order of the
\* text and leaves the path as it was, absent if it was absent; a list_all
\* right after a list_all returns the same.
C14_ListAll ==
    \A p \in Procs :
        Ended(p, "list_all")
            => /\ file = file0[p]
               /\ saves[p] = 0
               /\ ~file0[p].exists => result[p] = Ok(<<>>)
               /\ Dumped(file0[p])
                     => /\ result[p].kind = "ok"
                        /\ file0[p].text = Dumps(result[p].val)
               /\ prev[p].op = "list_all"
                     => /\ result[p].kind = prev[p].kind
                        /\ result[p].val = prev[p].val

C14_Witness ==
    /\ Ended(1, "list_all") /\ prev[1].op = "list_all"
    /\ Len(result[1].val) = 2
    /\ result[1].val[1].id = 2 /\ result[1].val[1].done
    /\ result[1].val[2].id = 1

\* C17: an add or mark_done that returns has entered save once, with the
\* whole sequence (the loaded records, plus the new one for add), and that
\* text is the store; list_all and every call that ends in ValueError enter
\* no save and leave the path as it was.
C17_OneSave ==
    \A p \in Procs :
        /\ (pc[p] = "done" /\ op[p] \in {"add", "mark_done"}
                /\ result[p].kind = "ok")
              => /\ saves[p] = 1
                 /\ Len(todos[p]) = Len(Load(file0[p]).val)
                                      + (IF op[p] = "add" THEN 1 ELSE 0)
                 /\ jsonData[p] = Dumps(todos[p])
                 /\ file = File(jsonData[p])
        /\ (pc[p] = "done" /\ op[p] \in {"add", "list_all", "mark_done"}
                /\ (op[p] = "list_all" \/ result[p].kind = "ValueError"))
              => /\ saves[p] = 0
                 /\ file = file0[p]

C17_Witness ==
    /\ Ended(1, "mark_done") /\ result[1].kind = "ok" /\ saves[1] = 1
    /\ prev[1].op = "add" /\ prev[1].kind = "ValueError"
    /\ Len(todos[1]) = 2
    /\ file = File(Dumps(todos[1]))

\* C15: two processes load the same store and then each saves its changed
\* sequence: both calls return, the store is the text of the save that
\* renamed last, and it holds the loaded records with that one change only,
\* so what the earlier save added is gone.
C15_LastSaveWins ==
    (/\ \A p \in Procs : pc[p] = "done" /\ saves[p] = 1 /\ Undisturbed(p)
     /\ file0[1] = file0[2])
        => /\ \A p \in Procs : result[p].kind = "ok"
           /\ writer \in Procs
           /\ file = File(jsonData[writer])
           /\ Load(file).kind = "ok"
           /\ Load(file).val = todos[writer]
           /\ Len(Load(file).val) =
                 Len(Load(file0[writer]).val)
                    + (IF op[writer] = "add" THEN 1 ELSE 0)
           /\ (op[3 - writer] = "add"
                 /\ (op[writer] = "add" => arg[1].title # arg[2].title))
                 => \A i \in 1..Len(Load(file).val) :
                       Load(file).val[i] # result[3 - writer].val[1]

C15_Witness ==
    /\ \A p \in Procs : Ended(p, "add") /\ saves[p] = 1 /\ Undisturbed(p)
    /\ file0[1] = file0[2] /\ file0[1].exists
    /\ arg[1].title # arg[2].title
    /\ writer = 2
    /\ Len(Load(file).val) = 2
    /\ Load(file).val[2].title = arg[2].title
    /\ result[1].kind = "ok" /\ result[1].val[1].id = result[2].val[1].id

\* C16: a call's outcome is a function of the operation, its argument and
\* the store at the call: the manager that served earlier calls and a
\* manager built for this call return the same, save the same text, and
\* leave the same store.
C16_NoCachedState ==
    (/\ pc[1] = "done" /\ pc[2] = "done"
     /\ op[1] = op[2] /\ arg[1] = arg[2] /\ file0[1] = file0[2]
     /\ Undisturbed(1) /\ Undisturbed(2))
        => /\ result[1] = result[2]
           /\ saves[1] = saves[2]
           /\ saves[1] = 1
                 => /\ todos[1] = todos[2]
                    /\ jsonData[1] = jsonData[2]
                    /\ file = File(jsonData[2])
           /\ saves[1] = 0 => file = file0[2]

C16_Witness ==
    /\ Ended(1, "add") /\ Ended(2, "add")
    /\ arg[1] = arg[2] /\ file0[1] = file0[2]
    /\ Undisturbed(1) /\ Undisturbed(2)
    /\ prev[1].op = "add" /\ prev[1].kind = "OSError"
    /\ prev[2].op = "none"
    /\ result[2].kind = "ok" /\ result[2].val[1].id = 1
    /\ file = File(jsonData[1])

\* The lines of an output stream: what stands before each line break.
RECURSIVE Lines(_)
Lines(stream) ==
    IF stream = <<>> THEN <<>>
    ELSE IF \A i \in 1..Len(stream) : stream[i] # Newline THEN <<stream>>
    ELSE LET k == CHOOSE i \in 1..Len(stream) :
                     /\ stream[i] = Newline
                     /\ \A j \in 1..(i - 1) : stream[j] # Newline
         IN <<SubSeq(stream, 1, k - 1)>>
               \o Lines(SubSeq(stream, k + 1, Len(stream)))

\* C18: the done command on an id that is done in the store prints
\* "Todo #<id> is already done" on stdout and nothing on stderr, exits with
\* 0, has not called mark_done, and leaves the store path as it was.
C18_DoneOnDone ==
    \A p \in Procs :
        (cli[p].cmd = "done" /\ cli[p].stage = "exit"
            /\ cli[p].arg.id \in DoneIds(cli[p].file0))
            => /\ Lines(cli[p].out) =
                     << <<"Todo #">> \o IntToStr(cli[p].arg.id)
                           \o <<" is already done">> >>
               /\ cli[p].err = <<>>
               /\ cli[p].code = 0
               /\ \A i \in 1..Len(cli[p].calls) : cli[p].calls[i] # "mark_done"
               /\ saves[p] = 0
               /\ file = cli[p].file0

C18_Witness ==
    /\ cli[1].cmd = "done" /\ cli[1].stage = "exit" /\ cli[1].arg.id = 1
    /\ 1 \in DoneIds(cli[1].file0)
    /\ writer = 1 /\ everDone = {1}
    /\ cli[1].calls = <<"list_all">>
    /\ cli[1].code = 0

C20_List ==
    \A p \in Procs :
        (cli[p].cmd = "list" /\ cli[p].stage = "exit"
            /\ Load(cli[p].file0).kind = "ok")
            => LET ts == Load(cli[p].file0).val
                   ls == Lines(cli[p].out)
               IN /\ cli[p].code = 0
                  /\ cli[p].err = <<>>
                  /\ saves[p] = 0
                  /\ file = cli[p].file0
                  /\ IF ts = <<>>
                     THEN ls = << <<"No todos found">> >>
                     ELSE /\ Len(ls) = Len(ts)
                          /\ \A i \in 1..Len(ts) :
                                ls[i] = <<"[", IF ts[i].done THEN CheckMark
                                                ELSE " ", "] #">>
                                           \o IntToStr(ts[i].id) \o <<": ">>
                                           \o ts[i].title

\* C21: on a path holding text that is not JSON, add of a title with a
\* non-whitespace character returns the Todo with id 1 and the path then
\* holds the array of that one record; mark_done of any id raises "Todo
\* #<id> not found" and leaves the text as it was.
C21_MalformedStore ==
    \A p \in Procs :
        (pc[p] = "done" /\ Undisturbed(p)
            /\ file0[p].exists /\ file0[p].text \in MalformedTexts)
            => /\ (op[p] = "add" /\ HasInk(arg[p].title))
                     => /\ result[p] = Ok(<<Todo(1, arg[p].title, FALSE)>>)
                        /\ file = File(Dumps(<<Todo(1, arg[p].title, FALSE)>>))
               /\ op[p] = "mark_done"
                     => /\ result[p] = Raise("ValueError",
                              <<"Todo #">> \o IntToStr(arg[p].id)
                                  \o <<" not found">>)
                        /\ file = file0[p]

\* A decoded value that is an array of objects each with the keys id, title
\* and done.
IsTodoArray(v) ==
    /\ v.t = "arr"
    /\ \A i \in 1..Len(v.a) :
          /\ v.a[i].t = "obj"
          /\ {KeyId, KeyTitle, KeyDone} \subseteq DOMAIN v.a[i].o

\* The path holds JSON that is no such array.
NonTodoJson(f) ==
    /\ f.exists
    /\ Loads(f.text).ok
    /\ ~IsTodoArray(Loads(f.text).v)

\* The path holds the empty object or the empty string.
EmptyIterable(f) ==
    LET v == Loads(f.text).v IN
    \/ v.t = "obj" /\ DOMAIN v.o = {}
    \/ v.t = "str" /\ v.s = <<>>

\* The call p ended (add of a title with a non-whitespace character,
\* list_all, mark_done) found a path on which load raises, gave that error to
\* its caller, entered no save and left the path as it was.
LoadErrorPassed(p) ==
    (pc[p] = "done"
        /\ (op[p] \in {"list_all", "mark_done"}
              \/ (op[p] = "add" /\ HasInk(arg[p].title))))
        => /\ Load(file0[p]).kind # "ok"
           /\ result[p] = Load(file0[p])
           /\ saves[p] = 0
           /\ file = file0[p]

\* C22 as claimed: on a path holding JSON that is not an array of objects
\* with the keys id, title and done, load raises and returns no empty
\* sequence, and add, list_all and mark_done pass that error on and do not
\* save.
C22_LoadRaises ==
    \A p \in Procs : NonTodoJson(file0[p]) => LoadErrorPassed(p)

\* C22, amended: the same for every such JSON but the empty object and the
\* empty string, which load returns as the empty sequence.
C22_LoadRaisesNonEmpty ==
    \A p \in Procs :
        (NonTodoJson(file0[p]) /\ ~EmptyIterable(file0[p]))
            => LoadErrorPassed(p)

C22_Witness ==
    /\ Ended(1, "add") /\ HasInk(arg[1].title)
    /\ NonTodoJson(file0[1]) /\ ~EmptyIterable(file0[1])
    /\ result[1].kind = "KeyError"
    /\ prev[1].op = "mark_done" /\ prev[1].kind = "KeyError"
    /\ file = file0[1]

\* C23: from an absent or empty store, between the calls of one process the
\* ids of the persisted records, in the order of the text, are 1, 2, ..., n
\* with n the number of add calls that returned.
C23_IdsOneToN ==
    pc[1] \in {"idle", "done"}
        => LET now == Load(file) IN
           /\ now.kind = "ok"
           /\ Len(now.val) = Len(assigned)
           /\ \A i \in 1..Len(now.val) : now.val[i].id = i

C23_Witness ==
    /\ Ended(1, "add") /\ result[1].kind = "ok"
    /\ Len(assigned) = 2 /\ Len(Load(file).val) = 2
    /\ Load(file).val[2].id = 2
    /\ faults = 1 /\ budget = 0

\* C24: from an absent or empty store, whatever the interleaving of the
\* loads and save steps of the adds and mark_dones of the processes, every
\* content of the store path has ids that are >= 1 and pairwise distinct.
C24_DistinctIds ==
    LET now == Load(file) IN
    /\ now.kind = "ok"
    /\ \A i \in 1..Len(now.val) :
          /\ now.val[i].id >= 1
          /\ \A j \in 1..Len(now.val) : now.val[j].id = now.val[i].id => j = i

C24_Witness ==
    /\ \A p \in Procs : Ended(p, "add") /\ result[p].kind = "ok"
    /\ file0[1] = file0[2]
    /\ result[1].val[1].id = 2 /\ result[2].val[1].id = 2
    /\ Len(Load(file).val) = 2
    /\ budget = 0

\* C25: two adds that both loaded the store before either saved return the
\* same id, and after both saves the store has exactly one record with that
\* id, with the title of the add that renamed last.
C25_SameId ==
    (/\ \A p \in Procs : Ended(p, "add") /\ saves[p] = 1 /\ Undisturbed(p)
     /\ file0[1] = file0[2])
        => /\ \A p \in Procs : result[p].kind = "ok"
           /\ result[1].val[1].id = result[2].val[1].id
           /\ LET now == Load(file).val
                  same == {i \in 1..Len(now) : now[i].id = result[1].val[1].id}
              IN /\ Cardinality(same) = 1
                 /\ \A i \in same : now[i].title = arg[writer].title

C25_Witness ==
    /\ \A p \in Procs : Ended(p, "add") /\ saves[p] = 1 /\ Undisturbed(p)
    /\ file0[1] = file0[2]
    /\ arg[1].title # arg[2].title
    /\ result[1].val[1].id = 10 /\ result[2].val[1].id = 10
    /\ writer = 1
    /\ Load(file).val[2] = Todo(10, arg[1].title, FALSE)

\* C26: when mark_done(id) of process m saved, and an add or a mark_done of
\* another id of process a that loaded the store before that save renames
\* after it, both calls return without an error and the store holds the
\* record of id with done false again, although it was persisted as true.
C26_DoneReverts ==
    \A m \in Procs : \A a \in Procs \ {m} :
        (/\ Ended(m, "mark_done") /\ result[m].kind = "ok"
         /\ pc[a] = "done" /\ saves[a] = 1
         /\ op[a] = "add" \/ (op[a] = "mark_done" /\ arg[a].id # arg[m].id)
         /\ Undisturbed(m) /\ Undisturbed(a)
         /\ file0[a] = file0[m]
         /\ writer = a)
            => /\ result[a].kind = "ok"
               /\ arg[m].id \in everDone
               /\ LET now == Load(file).val
                      i == FindTodo(now, arg[m].id)
                  IN i # 0 /\ ~now[i].done

C26_Witness ==
    /\ Ended(1, "mark_done") /\ result[1].kind = "ok" /\ arg[1].id = 1
    /\ Ended(2, "mark_done") /\ result[2].kind = "ok" /\ arg[2].id = 2
    /\ Undisturbed(1) /\ Undisturbed(2)
    /\ file0[1] = file0[2]
    /\ writer = 2
    /\ everDone = {1, 2}
    /\ DoneIds(file) = {2}

\* C27: a done command whose list_all saw the todo not done, and whose
\* mark_done found it done by another process, prints "Error: Todo #<id> is
\* already done" on stderr and nothing on stdout, exits with 1, and has
\* written nothing: the store is what another process made it.
C27_DoneRace ==
    \A p \in Procs :
        (/\ cli[p].cmd = "done" /\ cli[p].stage = "exit"
         /\ cli[p].calls = <<"list_all", "mark_done">>
         /\ op[p] = "mark_done" /\ prev[p].op = "list_all"
         /\ FindTodo(prev[p].val, cli[p].arg.id) # 0
         /\ ~prev[p].val[FindTodo(prev[p].val, cli[p].arg.id)].done
         /\ cli[p].arg.id \in DoneIds(file0[p]))
            => /\ Lines(cli[p].err) =
                     << <<"Error: ", "Todo #">> \o IntToStr(cli[p].arg.id)
                           \o <<" is already done">> >>
               /\ cli[p].out = <<>>
               /\ cli[p].code = 1
               /\ saves[p] = 0
               /\ writer \in Procs \ {p}

C27_Witness ==
    /\ cli[1].cmd = "done" /\ cli[1].stage = "exit" /\ cli[1].arg.id = 1
    /\ cli[1].calls = <<"list_all", "mark_done">>
    /\ op[1] = "mark_done" /\ prev[1].op = "list_all"
    /\ prev[1].val = <<Todo(1, <<"a">>, FALSE)>>
    /\ 1 \in DoneIds(file0[1])
    /\ cli[1].code = 1
    /\ writer = 2 /\ file = file0[1]
    /\ cli[2].cmd = "done" /\ cli[2].arg.id = 1 /\ cli[2].code = 0

====
